---- MODULE Spec2Model ----
(***************************************************************************)
(* Model of scripts/audit_categorization.py (the categorization audit) and *)
(* scripts/remediate_db.py (the category remediation of the SKU registry). *)
(***************************************************************************)
EXTENDS Naturals, Integers, Sequences, FiniteSets, TLC

VARIABLES
    \* ---- audit_categorization ----
    file_exists,        \* os.path.exists(csv_path)
    fieldnames,         \* the CSV header (csv.DictReader.fieldnames)
    csv_rows,           \* the rows csv.DictReader yields for the file
    pc,                 \* position in audit_categorization
    products,           \* list of row dicts
    categories,         \* dict category -> list of names (insertion ordered)
    mismatches,         \* list of {item, current, suggested}
    category_health,    \* dict category -> score (insertion ordered)
    ci,                 \* index of the (cat, items) pair being iterated
    ii,                 \* index of the name being iterated in items
    correct_count,      \* the per-category counter
    unique_mismatches,  \* deduplicated list
    seen,               \* set of item names already kept
    stdout,             \* what was printed: scores and mismatch report
    error,              \* the exception that left the function, or "none"
    run,                \* which call of audit_categorization this is
    first_result,       \* what the first call produced, kept for comparison
    \* ---- remediate_database ----
    json_exists,        \* os.path.exists(real_products_path)
    json_products,      \* the list json.load reads from real_products.json
    store_sku_registry, \* the committed rows of the table
    txn_registry,       \* the table as the open transaction sees it
    dpc,                \* position in remediate_database
    name_to_cat,        \* dict product name -> category
    rows,               \* cur.fetchall()
    ri,                 \* index of the row being iterated
    updates,            \* the counter of UPDATEs that returned
    issued,             \* the UPDATE statements handed to cur.execute
    commits,            \* calls of conn.commit() in this run
    db_error,           \* the exception the except clause caught, or "none"
    registry_at_start,  \* the committed rows when this run began
    drun,               \* which run of remediate_database this is
    first_run           \* outcome of the first run, kept for comparison

dbVars == <<json_exists, json_products, store_sku_registry, txn_registry, dpc,
            name_to_cat, rows, ri, updates, issued, commits, db_error,
            registry_at_start, drun, first_run>>

auditVars == <<file_exists, fieldnames, csv_rows, pc, products, categories,
               mismatches, category_health, ci, ii, correct_count,
               unique_mismatches, seen, stdout, error, run, first_result>>

-----------------------------------------------------------------------------
(* Bounds of the model *)

MaxRows == 3

MaxProducts == 2

MaxSkus == 2

-----------------------------------------------------------------------------
(* Python values *)

\* Python's None (csv.DictReader's restval for a short row).
None == "<None>"

Min(a, b) == IF a < b THEN a ELSE b

-----------------------------------------------------------------------------
(* Strings: str.lower() and the `in` substring test *)

UpperLetters ==
    <<"A","B","C","D","E","F","G","H","I","J","K","L","M",
      "N","O","P","Q","R","S","T","U","V","W","X","Y","Z">>

LowerLetters ==
    <<"a","b","c","d","e","f","g","h","i","j","k","l","m",
      "n","o","p","q","r","s","t","u","v","w","x","y","z">>

\* str.lower() on one character.
LowerChar(c) ==
    IF \E k \in 1..26 : UpperLetters[k] = c
    THEN LowerLetters[CHOOSE k \in 1..26 : UpperLetters[k] = c]
    ELSE c

RECURSIVE Lower(_)
\* str.lower()
Lower(s) ==
    IF Len(s) = 0 THEN ""
    ELSE LowerChar(SubSeq(s, 1, 1)) \o Lower(SubSeq(s, 2, Len(s)))

\* Python's `sub in s` on strings.
Contains(sub, s) ==
    \E k \in 1..(Len(s) + 1) :
        /\ k + Len(sub) - 1 <= Len(s)
        /\ SubSeq(s, k, k + Len(sub) - 1) = sub

-----------------------------------------------------------------------------
(* The heuristic rule table (a dict literal: iteration is definition order) *)

RuleOrder ==
    << "Beverages",
       "Foodgrains, Oil & Masala",
       "Beauty & Hygiene",
       "Cleaning & Household",
       "Snacks & Branded Foods",
       "Kitchen, Garden & Pets",
       "Bakery, Cakes & Dairy",
       "Fruits & Vegetables",
       "Eggs, Meat & Fish",
       "Baby Care",
       "Gourmet & World Food" >>

RuleKeywords ==
    << <<"Tea", "Coffee", "Juice", "Drink", "Water", "Mojito", "Cosmopolitan",
         "Milkshake", "Aamras", "Cola", "Soda", "Bev">>,
       <<"Rice", "Atta", "Flour", "Dal", "Masala", "Powder", "Oil", "Salt",
         "Garam Masala", "Sugar", "Saffron", "Turmeric", "Pepper", "Dalia",
         "Tamarind", "Asafoetida", "Basmati", "Cumin">>,
       <<"Soap", "Wash", "Shampoo", "Face", "Cream", "Oil", "Perfume",
         "Deoforant", "Toothpaste", "Scrub", "Lotion", "Gel", "Mask",
         "Sanitizer", "Conditioner", "Lip", "Serum", "Razor", "Blade", "Brush">>,
       <<"Cleaner", "Detergent", "Bucket", "Fragrance", "Freshener", "Mop",
         "Broom", "Wipes", "Dishwash", "Umbrella", "Notebook", "Pencil", "Bag",
         "Hook", "Stationery", "Battery", "Folder">>,
       <<"Chips", "Biscuit", "Noodles", "Jam", "Mix", "Papad", "Chocolate",
         "Honey", "Pickle", "Popcorn", "Candy", "Muesli", "Dosa", "Idly",
         "Wafer", "Makhana">>,
       <<"Bottle", "Steel", "Bowl", "Container", "Glass", "Pan", "Knife",
         "Cooker", "Plate", "Mug", "Cat", "Dog", "Pet", "Lead", "Brush",
         "Tiffin", "Flask", "Vati", "Dabba", "Tumbler">>,
       <<"Cheese", "Batter", "Yogurt", "Milk", "Bread", "Cake", "Butter",
         "Paneer", "Muffin", "Milkshake">>,
       <<"Fresho", "Onion", "Garlic", "Lemon", "Cabbage", "Brinjal", "Avocado",
         "Ginger", "Chilli", "Tomato", "Potato", "Pumpkin">>,
       <<"Prawns", "Salmon", "Chicken", "Pork", "Crab", "Sausage", "Salami",
         "Fish">>,
       <<"Diaper", "Baby", "Kids", "Mothercare", "Huggies", "Pampers",
         "New Born">>,
       <<"Olive", "Pasta", "Sauce", "Granola", "Blue Tea", "Coffee Roasters",
         "Muesli", "Sushi", "Wasabi", "Vinegar", "Tahini", "Jars">> >>

RuleCats == {RuleOrder[k] : k \in 1..Len(RuleOrder)}

-----------------------------------------------------------------------------
(* Inputs of the model: the catalog values a CSV row may carry *)

ProductNames == {"Olive Oil", "GREEN TEA", "Plain Curd"}

\* "Health & Wellness" is a category fetch_real_data.py assigns and the
\* rule table does not know.
CatalogCats == {"Beverages", "Gourmet & World Food", "Health & Wellness"}

Headers == { {"Product Name", "Category"}, {"Product Name"}, {"Category"} }

\* The dicts csv.DictReader yields under a header: every header column is a
\* key, and a column a short row does not reach holds None.
RowsOf(header) ==
    { r \in [header -> ProductNames \cup CatalogCats \cup {None}] :
        /\ "Product Name" \in header => r["Product Name"] \in ProductNames \cup {None}
        /\ "Category" \in header => r["Category"] \in CatalogCats \cup {None} }

RowSeqs(header) == UNION { [1..n -> RowsOf(header)] : n \in 0..MaxRows }

-----------------------------------------------------------------------------
(* Matching *)

\* any(rule.lower() in name_lower for rule in rule_list)
AnyRuleIn(name_lower, rule_list) ==
    \E k \in 1..Len(rule_list) : Contains(Lower(rule_list[k]), name_lower)

\* The outcome of the any(...) test for each product name of the model and
\* each entry of the rule table, computed once.
KeywordHit ==
    [ n \in ProductNames |->
        [ k \in 1..Len(RuleOrder) |-> AnyRuleIn(Lower(n), RuleKeywords[k]) ] ]

\* MatchesOwn with the rule list looked up under the wrong key:
\* rules.get(name, []).
MatchesOwnWrongKey(name, cat) ==
    IF name \in RuleCats
    THEN KeywordHit[name][CHOOSE k \in 1..Len(RuleOrder) : RuleOrder[k] = name]
    ELSE FALSE

\* MatchesOwn without rule.lower(): the keyword as written is sought in the
\* lower-cased name.
MatchesOwnCaseSensitive(name, cat) ==
    /\ cat \in RuleCats
    /\ LET own == RuleKeywords[CHOOSE k \in 1..Len(RuleOrder) : RuleOrder[k] = cat]
       IN  \E w \in 1..Len(own) : Contains(own[w], Lower(name))

\* MatchesOwn with a non-empty default: rules.get(cat, <first rule list>).
MatchesOwnFallback(name, cat) ==
    KeywordHit[name][IF cat \in RuleCats
                     THEN CHOOSE k \in 1..Len(RuleOrder) : RuleOrder[k] = cat
                     ELSE 1]

\* Lines 44 and 49: the primary validation of name against
\* rules.get(cat, []); any() over the empty default list is False.
MatchesOwn(name, cat) ==
    IF cat \in RuleCats
    THEN KeywordHit[name][CHOOSE k \in 1..Len(RuleOrder) : RuleOrder[k] = cat]
    ELSE FALSE

RECURSIVE ScanOthersNoBreak(_, _, _)
\* ScanOthers without the break: the last matching category is kept.
ScanOthersNoBreak(k, name, cat) ==
    IF k > Len(RuleOrder) THEN None
    ELSE LET rest == ScanOthersNoBreak(k + 1, name, cat)
         IN  IF rest # None THEN rest
             ELSE IF RuleOrder[k] # cat /\ KeywordHit[name][k] THEN RuleOrder[k]
             ELSE None

RECURSIVE ScanOthers(_, _, _)
\* Lines 53-58: the loop over rules.items() from entry k on; the value left
\* in possible_match.
ScanOthers(k, name, cat) ==
    IF k > Len(RuleOrder) THEN None
    ELSE IF RuleOrder[k] = cat THEN ScanOthers(k + 1, name, cat)
    ELSE IF KeywordHit[name][k] THEN RuleOrder[k]
    ELSE ScanOthers(k + 1, name, cat)

PossibleMatch(name, cat) == ScanOthers(1, name, cat)

-----------------------------------------------------------------------------
(* Insertion-ordered dicts, as sequences of entries *)

DictKeys(d) == { d[k].cat : k \in 1..Len(d) }

DictIndex(d, cat) == CHOOSE k \in 1..Len(d) : d[k].cat = cat

\* d[cat] = score: a new key is appended, a known key keeps its place.
DictSet(d, cat, score) ==
    IF cat \in DictKeys(d)
    THEN [d EXCEPT ![DictIndex(d, cat)].score = score]
    ELSE Append(d, [cat |-> cat, score |-> score])

RECURSIVE GroupLoopReset(_, _, _)
\* GroupLoop with categories[cat] = [] run for every row, known key or not.
GroupLoopReset(ps, k, cats) ==
    IF k > Len(ps) THEN [raised |-> FALSE, categories |-> cats]
    ELSE IF "Category" \notin DOMAIN ps[k]
    THEN [raised |-> TRUE, categories |-> cats]
    ELSE LET cat == ps[k]["Category"]
             cats1 == IF cat \notin DictKeys(cats)
                      THEN Append(cats, [cat |-> cat, items |-> <<>>])
                      ELSE [cats EXCEPT ![DictIndex(cats, cat)].items = <<>>]
         IN  IF "Product Name" \notin DOMAIN ps[k]
             THEN [raised |-> TRUE, categories |-> cats1]
             ELSE LET at == DictIndex(cats1, cat)
                  IN  GroupLoopReset(ps, k + 1,
                        [cats1 EXCEPT ![at].items =
                            Append(@, ps[k]["Product Name"])])

RECURSIVE GroupLoop(_, _, _)
\* Lines 18-22 from row k on. A row dict without the key raises KeyError.
GroupLoop(ps, k, cats) ==
    IF k > Len(ps) THEN [raised |-> FALSE, categories |-> cats]
    ELSE IF "Category" \notin DOMAIN ps[k]
    THEN [raised |-> TRUE, categories |-> cats]
    ELSE LET cat == ps[k]["Category"]
             cats1 == IF cat \notin DictKeys(cats)
                      THEN Append(cats, [cat |-> cat, items |-> <<>>])
                      ELSE cats
         IN  IF "Product Name" \notin DOMAIN ps[k]
             THEN [raised |-> TRUE, categories |-> cats1]
             ELSE LET at == DictIndex(cats1, cat)
                  IN  GroupLoop(ps, k + 1,
                        [cats1 EXCEPT ![at].items =
                            Append(@, ps[k]["Product Name"])])

GroupByCategory(ps) == GroupLoop(ps, 1, <<>>)

\* AlignmentPct without the factor 100.
AlignmentFraction(correct, items) ==
    IF Len(items) # 0
    THEN [num |-> correct, den |-> Len(items)]
    ELSE [num |-> 0, den |-> 1]

\* Line 67: (correct_count / len(items)) * 100 if items else 0, kept as the
\* exact fraction num/den.
AlignmentPct(correct, items) ==
    IF Len(items) # 0
    THEN [num |-> correct * 100, den |-> Len(items)]
    ELSE [num |-> 0, den |-> 1]

RECURSIVE DedupLoopNoAdd(_, _, _, _)
\* DedupLoop without seen.add(m['item']).
DedupLoopNoAdd(ms, k, uniq, seenNames) ==
    IF k > Len(ms) THEN [unique_mismatches |-> uniq, seen |-> seenNames]
    ELSE IF ms[k].item \notin seenNames
    THEN DedupLoopNoAdd(ms, k + 1, Append(uniq, ms[k]), seenNames)
    ELSE DedupLoopNoAdd(ms, k + 1, uniq, seenNames)

RECURSIVE DedupLoop(_, _, _, _)
\* Lines 77-80 from mismatch k on.
DedupLoop(ms, k, uniq, seenNames) ==
    IF k > Len(ms) THEN [unique_mismatches |-> uniq, seen |-> seenNames]
    ELSE IF ms[k].item \notin seenNames
    THEN DedupLoop(ms, k + 1, Append(uniq, ms[k]), seenNames \cup {ms[k].item})
    ELSE DedupLoop(ms, k + 1, uniq, seenNames)

\* Line 85: the report shows unique_mismatches[:15].
DisplayLimit == 15

-----------------------------------------------------------------------------
(* audit_categorization(csv_path) *)

\* The locals of a call that has not assigned them yet.
NoLocals ==
    /\ products = <<>>
    /\ categories = <<>>
    /\ mismatches = <<>>
    /\ category_health = <<>>
    /\ ci = 1
    /\ ii = 1
    /\ correct_count = 0
    /\ unique_mismatches = <<>>
    /\ seen = {}

InitAudit ==
    /\ \/ /\ file_exists = TRUE
          /\ fieldnames \in Headers
          /\ csv_rows \in RowSeqs(fieldnames)
       \/ /\ file_exists = FALSE
          /\ fieldnames = {"Product Name", "Category"}
          /\ csv_rows = <<>>
    /\ pc = "start"
    /\ NoLocals
    /\ stdout = <<>>
    /\ error = "none"
    /\ run = 1
    /\ first_result = <<>>

\* Lines 5-15: the existence check, the title, and the read of the file.
ReadCsv ==
    /\ UNCHANGED dbVars
    /\ pc = "start"
    /\ IF ~ file_exists
       THEN /\ stdout' = Append(stdout, [kind |-> "file not found"])
            /\ pc' = "done"
            /\ UNCHANGED products
       ELSE /\ stdout' = Append(stdout, [kind |-> "title"])
            /\ products' = csv_rows
            /\ pc' = "group"
    /\ UNCHANGED <<file_exists, fieldnames, csv_rows, categories, mismatches,
                   category_health, ci, ii, correct_count, unique_mismatches,
                   seen, error, run, first_result>>

\* Lines 17-40: the grouping loop, then mismatches = [] and
\* category_health = {}.
GroupProducts ==
    /\ UNCHANGED dbVars
    /\ pc = "group"
    /\ LET g == GroupByCategory(products)
       IN  IF g.raised
           THEN /\ error' = "KeyError"
                /\ pc' = "raised"
                /\ categories' = g.categories
                /\ UNCHANGED <<mismatches, category_health>>
           ELSE /\ categories' = g.categories
                /\ mismatches' = <<>>
                /\ category_health' = <<>>
                /\ pc' = "audit"
                /\ UNCHANGED error
    /\ ci' = 1
    /\ ii' = 1
    /\ correct_count' = 0
    /\ UNCHANGED <<file_exists, fieldnames, csv_rows, products,
                   unique_mismatches, seen, stdout, run, first_result>>

\* Lines 46-65: one iteration of `for name in items` in the category at ci.
AuditItem ==
    /\ UNCHANGED dbVars
    /\ pc = "audit"
    /\ ci <= Len(categories)
    /\ ii <= Len(categories[ci].items)
    /\ LET cat == categories[ci].cat
           name == categories[ci].items[ii]
       IN  IF name = None
           THEN \* None.lower()
                /\ error' = "AttributeError"
                /\ pc' = "raised"
                /\ UNCHANGED <<ii, correct_count, mismatches>>
           ELSE /\ IF MatchesOwn(name, cat)
                   THEN /\ correct_count' = correct_count + 1
                        /\ UNCHANGED mismatches
                   ELSE /\ UNCHANGED correct_count
                        /\ LET possible_match == PossibleMatch(name, cat)
                           IN  IF possible_match # None
                               THEN mismatches' = Append(mismatches,
                                        [item |-> name, current |-> cat,
                                         suggested |-> possible_match])
                               ELSE UNCHANGED mismatches
                /\ ii' = ii + 1
                /\ UNCHANGED <<error, pc>>
    /\ UNCHANGED <<file_exists, fieldnames, csv_rows, products, categories,
                   category_health, ci, unique_mismatches, seen, stdout, run,
                   first_result>>

\* Line 67, and lines 42-44 for the next category.
ScoreCategory ==
    /\ UNCHANGED dbVars
    /\ pc = "audit"
    /\ ci <= Len(categories)
    /\ ii > Len(categories[ci].items)
    /\ category_health' = DictSet(category_health, categories[ci].cat,
            AlignmentPct(correct_count, categories[ci].items))
    /\ ci' = ci + 1
    /\ ii' = 1
    /\ correct_count' = 0
    /\ UNCHANGED <<file_exists, fieldnames, csv_rows, pc, products, categories,
                   mismatches, unique_mismatches, seen, stdout, error, run,
                   first_result>>

\* Report with `seen` kept across calls (a module-level set) instead of the
\* fresh set() of line 76.
ReportStaleSeen ==
    /\ UNCHANGED dbVars
    /\ pc = "audit"
    /\ ci > Len(categories)
    /\ LET d == DedupLoop(mismatches, 1, <<>>, seen)
           shown == SubSeq(d.unique_mismatches, 1,
                           Min(DisplayLimit, Len(d.unique_mismatches)))
       IN  /\ unique_mismatches' = d.unique_mismatches
           /\ seen' = d.seen
           /\ stdout' = stdout
                  \o [k \in 1..Len(category_health) |->
                        [kind |-> "score", entry |-> category_health[k]]]
                  \o (IF d.unique_mismatches = <<>>
                      THEN << [kind |-> "no mismatches"] >>
                      ELSE [k \in 1..Len(shown) |->
                              [kind |-> "mismatch", entry |-> shown[k]]])
                  \o << [kind |-> "total", entry |-> Len(d.unique_mismatches)] >>
    /\ pc' = "done"
    /\ UNCHANGED <<file_exists, fieldnames, csv_rows, products, categories,
                   mismatches, category_health, ci, ii, correct_count, error,
                   run, first_result>>

\* Lines 69-92: the scores, the deduplication and the mismatch report.
Report ==
    /\ UNCHANGED dbVars
    /\ pc = "audit"
    /\ ci > Len(categories)
    /\ LET d == DedupLoop(mismatches, 1, <<>>, {})
           shown == SubSeq(d.unique_mismatches, 1,
                           Min(DisplayLimit, Len(d.unique_mismatches)))
       IN  /\ unique_mismatches' = d.unique_mismatches
           /\ seen' = d.seen
           /\ stdout' = stdout
                  \o [k \in 1..Len(category_health) |->
                        [kind |-> "score", entry |-> category_health[k]]]
                  \o (IF d.unique_mismatches = <<>>
                      THEN << [kind |-> "no mismatches"] >>
                      ELSE [k \in 1..Len(shown) |->
                              [kind |-> "mismatch", entry |-> shown[k]]])
                  \o << [kind |-> "total", entry |-> Len(d.unique_mismatches)] >>
    /\ pc' = "done"
    /\ UNCHANGED <<file_exists, fieldnames, csv_rows, products, categories,
                   mismatches, category_health, ci, ii, correct_count, error,
                   run, first_result>>

\* A second call of audit_categorization on the same file. What the first
\* call left in its locals is stale: the call assigns each local before it
\* reads it. The first call's outcome is kept for comparison.
CallAgain ==
    /\ UNCHANGED dbVars
    /\ pc \in {"done", "raised"}
    /\ run = 1
    /\ first_result' = << [pc |-> pc, error |-> error, stdout |-> stdout,
                           category_health |-> category_health,
                           unique_mismatches |-> unique_mismatches] >>
    /\ run' = 2
    /\ pc' = "start"
    /\ stdout' = <<>>
    /\ error' = "none"
    /\ UNCHANGED <<file_exists, fieldnames, csv_rows, products, categories,
                   mismatches, category_health, ci, ii, correct_count,
                   unique_mismatches, seen>>

NextAudit == ReadCsv \/ GroupProducts \/ AuditItem \/ ScoreCategory \/ Report

-----------------------------------------------------------------------------
(* remediate_database() *)

DbNames == {"Olive Oil", "GREEN TEA"}

\* fetch_real_data.py moves Health & Medicine products from Beauty & Hygiene
\* to Health & Wellness.
DbCats == {"Beauty & Hygiene", "Health & Wellness"}

ProductLists ==
    UNION { [1..n -> [name : DbNames, category : DbCats]] : n \in 0..MaxProducts }

\* The registry: rows keyed by (store_id, store_item_id). The demo store
\* holds items 1..n, and another store holds an item numbered 1 too.
Registries ==
    { demo \cup {other} :
        demo \in UNION { { {[store_id |-> "demo-store", store_item_id |-> k,
                             normalized_product_name |-> f[k].name,
                             master_category_name |-> f[k].cat] : k \in 1..n} :
                           f \in [1..n -> [name : DbNames, cat : DbCats]] } :
                         n \in 0..MaxSkus },
        other \in { [store_id |-> "other-store", store_item_id |-> 1,
                     normalized_product_name |-> "Olive Oil",
                     master_category_name |-> c] : c \in DbCats } }

RECURSIVE DictFromList(_, _, _)
\* Line 28: {p['name']: p['category'] for p in real_products}; a later
\* entry of the same name replaces the earlier one.
DictFromList(ps, k, d) ==
    IF k > Len(ps) THEN d
    ELSE DictFromList(ps, k + 1,
            [n \in DOMAIN d \cup {ps[k].name} |->
                IF n = ps[k].name THEN ps[k].category ELSE d[n]])

EmptyDict == [n \in {} |-> None]

\* Line 35: the SELECT's WHERE clause and column list.
SelectDemoStore(registry) ==
    { [sku_id |-> r.store_item_id, name |-> r.normalized_product_name,
       current_cat |-> r.master_category_name] :
        r \in { q \in registry : q.store_id = "demo-store" } }

\* The orders in which the SELECT, which has no ORDER BY, may return rows.
Orderings(S) ==
    { f \in [1..Cardinality(S) -> S] :
        \A a, b \in 1..Cardinality(S) : a # b => f[a] # f[b] }

\* Lines 43-46: the UPDATE statement applied to the transaction's view.
ApplyUpdate(registry, new_cat, sku_id) ==
    { IF r.store_id = "demo-store" /\ r.store_item_id = sku_id
      THEN [r EXCEPT !.master_category_name = new_cat]
      ELSE r : r \in registry }

\* NeedsUpdate without the comparison of line 42.
NeedsUpdateAlways(row, mapping) == row.name \in DOMAIN mapping

\* Lines 40-42: whether the loop body issues the UPDATE for a fetched row.
NeedsUpdate(row, mapping) ==
    /\ row.name \in DOMAIN mapping
    /\ mapping[row.name] # row.current_cat

NoDbLocals ==
    /\ name_to_cat = EmptyDict
    /\ rows = <<>>
    /\ ri = 1
    /\ updates = 0
    /\ issued = <<>>
    /\ commits = 0
    /\ db_error = "none"

InitDb ==
    /\ \/ /\ json_exists = TRUE
          /\ json_products \in ProductLists
       \/ /\ json_exists = FALSE
          /\ json_products = <<>>
    /\ store_sku_registry \in Registries
    /\ txn_registry = store_sku_registry
    /\ registry_at_start = store_sku_registry
    /\ dpc = "start"
    /\ NoDbLocals
    /\ drun = 1
    /\ first_run = <<>>

\* Lines 16-28: the existence check, json.load and the mapping.
LoadMapping ==
    /\ UNCHANGED auditVars
    /\ dpc = "start"
    /\ IF ~ json_exists
       THEN /\ dpc' = "returned"
            /\ UNCHANGED name_to_cat
       ELSE /\ name_to_cat' = DictFromList(json_products, 1, EmptyDict)
            /\ dpc' = "connect"
    /\ UNCHANGED <<json_exists, json_products, store_sku_registry,
                   txn_registry, rows, ri, updates, issued, commits, db_error,
                   registry_at_start, drun, first_run>>

\* Lines 31-32: psycopg2.connect and conn.cursor(), which may raise.
Connect ==
    /\ UNCHANGED auditVars
    /\ dpc = "connect"
    /\ \/ /\ dpc' = "select"
          /\ txn_registry' = store_sku_registry
          /\ UNCHANGED db_error
       \/ /\ db_error' = "connect"
          /\ dpc' = "returned"
          /\ UNCHANGED txn_registry
    /\ UNCHANGED <<json_exists, json_products, store_sku_registry,
                   name_to_cat, rows, ri, updates, issued, commits,
                   registry_at_start, drun, first_run>>

\* Lines 35-38: the SELECT, fetchall and updates = 0.
SelectRows ==
    /\ UNCHANGED auditVars
    /\ dpc = "select"
    /\ \/ /\ rows' \in Orderings(SelectDemoStore(txn_registry))
          /\ updates' = 0
          /\ ri' = 1
          /\ dpc' = "loop"
          /\ UNCHANGED db_error
       \/ /\ db_error' = "select"
          /\ dpc' = "returned"
          /\ UNCHANGED <<rows, updates, ri>>
    /\ UNCHANGED <<json_exists, json_products, store_sku_registry,
                   txn_registry, name_to_cat, issued, commits,
                   registry_at_start, drun, first_run>>

\* Lines 39-47: one iteration of the loop over rows. An UPDATE that raises
\* leaves the try block; the connection is dropped uncommitted.
ProcessRow ==
    /\ UNCHANGED auditVars
    /\ dpc = "loop"
    /\ ri <= Len(rows)
    /\ IF NeedsUpdate(rows[ri], name_to_cat)
       THEN LET new_cat == name_to_cat[rows[ri].name]
                stmt == [new_cat |-> new_cat, sku_id |-> rows[ri].sku_id]
            IN  /\ issued' = Append(issued, stmt)
                /\ \/ /\ txn_registry' =
                            ApplyUpdate(txn_registry, new_cat, rows[ri].sku_id)
                      /\ updates' = updates + 1
                      /\ ri' = ri + 1
                      /\ UNCHANGED <<db_error, dpc>>
                   \/ /\ db_error' = "update"
                      /\ dpc' = "returned"
                      /\ txn_registry' = store_sku_registry
                      /\ UNCHANGED <<updates, ri>>
       ELSE /\ ri' = ri + 1
            /\ UNCHANGED <<issued, txn_registry, updates, db_error, dpc>>
    /\ UNCHANGED <<json_exists, json_products, store_sku_registry,
                   name_to_cat, rows, commits, registry_at_start, drun,
                   first_run>>

\* Lines 49-53: conn.commit(), the success message and the closes. A commit
\* that raises may or may not have reached the server.
Commit ==
    /\ UNCHANGED auditVars
    /\ dpc = "loop"
    /\ ri > Len(rows)
    /\ commits' = commits + 1
    /\ \/ /\ store_sku_registry' = txn_registry
          /\ UNCHANGED db_error
       \/ /\ db_error' = "commit"
          /\ store_sku_registry' \in {store_sku_registry, txn_registry}
    /\ dpc' = "returned"
    /\ UNCHANGED <<json_exists, json_products, txn_registry, name_to_cat,
                   rows, ri, updates, issued, registry_at_start, drun,
                   first_run>>

\* The script is run a second time, right after a first run that reached
\* its success message.
RunAgain ==
    /\ UNCHANGED auditVars
    /\ dpc = "returned"
    /\ drun = 1
    /\ db_error = "none"
    /\ commits = 1
    /\ first_run' = << [db_error |-> db_error, commits |-> commits,
                        updates |-> updates] >>
    /\ drun' = 2
    /\ dpc' = "start"
    /\ registry_at_start' = store_sku_registry
    /\ txn_registry' = store_sku_registry
    /\ name_to_cat' = EmptyDict
    /\ rows' = <<>>
    /\ ri' = 1
    /\ updates' = 0
    /\ issued' = <<>>
    /\ commits' = 0
    /\ db_error' = "none"
    /\ UNCHANGED <<json_exists, json_products, store_sku_registry>>

NextDb == LoadMapping \/ Connect \/ SelectRows \/ ProcessRow \/ Commit \/ RunAgain

-----------------------------------------------------------------------------
(* Specifications *)

vars == <<auditVars, dbVars>>

\* The database script at rest, while the audit is examined.
DbIdle ==
    /\ json_exists = FALSE
    /\ json_products = <<>>
    /\ store_sku_registry = {}
    /\ txn_registry = {}
    /\ registry_at_start = {}
    /\ dpc = "idle"
    /\ NoDbLocals
    /\ drun = 1
    /\ first_run = <<>>

\* The audit at rest, while the database script is examined.
AuditIdle ==
    /\ file_exists = FALSE
    /\ fieldnames = {}
    /\ csv_rows = <<>>
    /\ pc = "idle"
    /\ NoLocals
    /\ stdout = <<>>
    /\ error = "none"
    /\ run = 1
    /\ first_result = <<>>

\* One call of audit_categorization on a CSV file.
Init == InitAudit /\ DbIdle

Next == NextAudit

Spec == Init /\ [][Next]_vars

\* Two calls of audit_categorization on the same file.
NextTwice == NextAudit \/ CallAgain

SpecTwice == Init /\ [][NextTwice]_vars

\* remediate_database, run and then run again.
InitRemediate == InitDb /\ AuditIdle

SpecDb == InitRemediate /\ [][NextDb]_vars

-----------------------------------------------------------------------------
(* What the properties speak of, stated without the audit's own operators *)

\* kw is a case-insensitive substring of s.
ContainsCI(s, kw) ==
    \E i \in 0..(Len(s) - Len(kw)) :
        \A j \in 1..Len(kw) :
            LowerChar(SubSeq(s, i + j, i + j)) = LowerChar(SubSeq(kw, j, j))

\* Whether some keyword of rule-table entry k is a case-insensitive
\* substring of the name.
KeywordIn ==
    [ n \in ProductNames |->
        [ k \in 1..Len(RuleOrder) |->
            \E w \in 1..Len(RuleKeywords[k]) : ContainsCI(n, RuleKeywords[k][w]) ] ]

\* Some keyword of cat's rule list is a case-insensitive substring of name.
HasKeywordOf(name, cat) ==
    /\ name \in ProductNames
    /\ \E k \in 1..Len(RuleOrder) : RuleOrder[k] = cat /\ KeywordIn[name][k]

\* The audit loop has been entered (and may have finished or raised in it).
AuditEntered ==
    \/ pc \in {"audit", "done"} /\ file_exists
    \/ pc = "raised" /\ error = "AttributeError"

\* A row that lacks a product name or a category.
LacksField(p) ==
    \/ "Product Name" \notin DOMAIN p
    \/ "Category" \notin DOMAIN p
    \/ p["Product Name"] = None
    \/ p["Category"] = None

\* The elements of a sequence.
Range(q) == { q[k] : k \in 1..Len(q) }

RECURSIVE TraversalFrom(_)
\* The (item, current category) pairs in the order the audit visits them:
\* categories in dict order from entry k on, items in list order.
TraversalFrom(k) ==
    IF k > Len(categories) THEN <<>>
    ELSE [j \in 1..Len(categories[k].items) |->
            [item |-> categories[k].items[j], current |-> categories[k].cat]]
         \o TraversalFrom(k + 1)

Traversal == TraversalFrom(1)

RECURSIVE ItemsBefore(_)
\* How many items the categories before entry k hold.
ItemsBefore(k) ==
    IF k <= 1 THEN 0 ELSE ItemsBefore(k - 1) + Len(categories[k - 1].items)

\* The pairs the audit loop has finished with.
Visited == SubSeq(Traversal, 1, ItemsBefore(ci) + ii - 1)

\* Rule-table entry k is a category other than t's own whose keywords match.
OtherMatch(t, k) == RuleOrder[k] # t.current /\ KeywordIn[t.item][k]

\* The pair does not match its own category and matches another one.
Flagged(t) ==
    /\ t.item \in ProductNames
    /\ ~ HasKeywordOf(t.item, t.current)
    /\ \E k \in 1..Len(RuleOrder) : OtherMatch(t, k)

\* The first other category, in rule-table order, whose keywords match.
FirstOther(t) ==
    RuleOrder[CHOOSE k \in 1..Len(RuleOrder) :
                /\ OtherMatch(t, k)
                /\ \A l \in 1..(k - 1) : ~ OtherMatch(t, l)]

\* The input row k does not match its own category and matches another one.
RowFlagged(k) ==
    Flagged([item |-> products[k]["Product Name"],
             current |-> products[k]["Category"]])

\* The first input row that carries category c.
CatRank(c) ==
    CHOOSE k \in 1..Len(products) :
        /\ products[k]["Category"] = c
        /\ \A l \in 1..(k - 1) : products[l]["Category"] # c

\* Input row k comes before input row l in the order: categories by first
\* appearance in the input, rows of a category in input order.
VisitedBefore(k, l) ==
    \/ CatRank(products[k]["Category"]) < CatRank(products[l]["Category"])
    \/ products[k]["Category"] = products[l]["Category"] /\ k < l

\* The first input row with the record's item name and current category,
\* or 0 when no row has them.
RowOf(m) ==
    LET hits == { k \in 1..Len(products) :
                    /\ products[k]["Product Name"] = m.item
                    /\ products[k]["Category"] = m.current }
    IN  IF hits = {} THEN 0
        ELSE CHOOSE k \in hits : \A l \in hits : k <= l

\* How many of the first n members of a group match the group's category.
OwnCount(group, n) ==
    Cardinality({ j \in 1..n : HasKeywordOf(group.items[j], group.cat) })

-----------------------------------------------------------------------------
(* Properties *)

\* C1: every Mismatch record the audit produces has a suggested category
\* one of whose keywords is a case-insensitive substring of the item's name,
\* a current category none of whose keywords is, and suggested # current.
C1_MismatchRequiresForeignMatch ==
    AuditEntered =>
        \A m \in Range(mismatches) \cup
                 (IF pc = "done" THEN Range(unique_mismatches) ELSE {}) :
            /\ HasKeywordOf(m.item, m.suggested)
            /\ ~ HasKeywordOf(m.item, m.current)
            /\ m.suggested # m.current

C1_Witness ==
    /\ pc = "done"
    /\ \E m \in Range(unique_mismatches) :
          m.current \in RuleCats /\ m.item = "GREEN TEA"

\* C2 as claimed: when an item's name contains a keyword of its own
\* category, no Mismatch record carries that name, even if the name also
\* appears in the catalog under a different category.
C2_NoRecordForTheName ==
    (pc = "done" /\ file_exists
        /\ \A k \in 1..Len(csv_rows) : ~ LacksField(csv_rows[k])) =>
        \A k \in 1..Len(products) :
            HasKeywordOf(products[k]["Product Name"], products[k]["Category"])
            => \A m \in Range(mismatches) \cup Range(unique_mismatches) :
                    m.item # products[k]["Product Name"]

\* C2 as amended: when an item's name contains a keyword of its own
\* category, no Mismatch record carries that name together with that
\* category as its current category.
C2_SelfMatchNoMismatch ==
    AuditEntered =>
        \A k \in 1..Len(products) :
            HasKeywordOf(products[k]["Product Name"], products[k]["Category"])
            => \A m \in Range(mismatches) \cup
                        (IF pc = "done" THEN Range(unique_mismatches) ELSE {}) :
                    ~ (m.item = products[k]["Product Name"]
                       /\ m.current = products[k]["Category"])

\* An item that matches both its own category and an earlier table entry
\* has been audited and was not flagged.
C2_Witness ==
    /\ pc = "done"
    /\ \E k \in 1..Len(products) :
          /\ products[k]["Product Name"] = "Olive Oil"
          /\ products[k]["Category"] = "Gourmet & World Food"
    /\ \E m \in Range(unique_mismatches) : m.item = "GREEN TEA"

\* C4: grouping partitions the input rows: each group holds, in input
\* order, exactly the names of the rows carrying its category; no group is
\* empty; groups are ordered by first appearance of their category.
C4_Partition ==
    AuditEntered =>
        LET NamesIn(c) ==
                LET sel == SelectSeq(products, LAMBDA p : p["Category"] = c)
                IN  [k \in 1..Len(sel) |-> sel[k]["Product Name"]]
            FirstRow(c) ==
                CHOOSE k \in 1..Len(products) :
                    /\ products[k]["Category"] = c
                    /\ \A l \in 1..(k - 1) : products[l]["Category"] # c
        IN  /\ \A a, b \in 1..Len(categories) :
                    a # b => categories[a].cat # categories[b].cat
            /\ { categories[k].cat : k \in 1..Len(categories) }
                    = { products[k]["Category"] : k \in 1..Len(products) }
            /\ \A k \in 1..Len(categories) :
                    /\ categories[k].items # <<>>
                    /\ categories[k].items = NamesIn(categories[k].cat)
            /\ \A a, b \in 1..Len(categories) :
                    a < b => FirstRow(categories[a].cat) < FirstRow(categories[b].cat)

\* Two categories interleaved in the input have been grouped.
C4_Witness ==
    /\ pc = "audit"
    /\ Len(products) = 3
    /\ products[1]["Category"] = products[3]["Category"]
    /\ products[1]["Category"] # products[2]["Category"]
    /\ products[1]["Product Name"] # products[3]["Product Name"]
    /\ Len(categories) = 2

\* C6: when a row lacks a product name or a category the run raises, and
\* nothing of the scores or of the mismatch report is printed.
C6_FailFast ==
    (file_exists /\ \E k \in 1..Len(csv_rows) : LacksField(csv_rows[k])) =>
        /\ pc # "done"
        /\ \A k \in 1..Len(stdout) : stdout[k].kind = "title"

\* C3: the deduplicated list holds one entry per flagged item name, the
\* entry of the first flagged pair of that name in traversal order
\* (categories by first appearance in the input, items of a category in
\* input order), and keeps the entries in that order.
C3_DedupFirstWins ==
    (pc = "done" /\ file_exists) =>
        LET F == SelectSeq(Traversal, Flagged)
            U == unique_mismatches
            FirstOf(n) == CHOOSE k \in 1..Len(F) :
                            /\ F[k].item = n
                            /\ \A l \in 1..(k - 1) : F[l].item # n
            FirstIn(n) == CHOOSE k \in 1..Len(mismatches) :
                            /\ mismatches[k].item = n
                            /\ \A l \in 1..(k - 1) : mismatches[l].item # n
        IN  /\ \A a, b \in 1..Len(U) : a # b => U[a].item # U[b].item
            /\ { U[k].item : k \in 1..Len(U) } = { F[k].item : k \in 1..Len(F) }
            /\ \A k \in 1..Len(U) :
                    /\ U[k].current = F[FirstOf(U[k].item)].current
                    /\ U[k] = mismatches[FirstIn(U[k].item)]
            /\ \A a, b \in 1..Len(U) :
                    a < b => FirstOf(U[a].item) < FirstOf(U[b].item)
            /\ \A a \in 1..Len(U) :
                    /\ RowOf(U[a]) \in 1..Len(products)
                    /\ \A l \in 1..Len(products) :
                          (RowFlagged(l) /\ products[l]["Product Name"] = U[a].item
                              /\ products[l]["Category"] # U[a].current)
                          => VisitedBefore(RowOf(U[a]), l)
            /\ \A a, b \in 1..Len(U) :
                    a < b => VisitedBefore(RowOf(U[a]), RowOf(U[b]))

\* Three records of two names were produced and the later duplicate dropped.
C3_Witness ==
    /\ pc = "done"
    /\ Len(mismatches) = 3
    /\ Len(unique_mismatches) = 2
    /\ mismatches[1].item = mismatches[3].item
    /\ mismatches[1].current # mismatches[3].current

\* C5: the counter equals the number of members visited so far that match
\* the category's own rules; a recorded score is 100 * matched / members,
\* between 0 and 100; an empty member list scores 0.
C5_ScoreBounds ==
    AuditEntered =>
        /\ ci <= Len(categories) =>
              /\ correct_count = OwnCount(categories[ci], ii - 1)
              /\ correct_count <= Len(categories[ci].items)
        /\ Len(category_health) = ci - 1
        /\ \A k \in 1..Len(category_health) :
              LET n == Len(categories[k].items)
                  sc == category_health[k].score
              IN  /\ category_health[k].cat = categories[k].cat
                  /\ sc.den > 0
                  /\ sc.num * n = 100 * OwnCount(categories[k], n) * sc.den
                  /\ 0 <= sc.num
                  /\ sc.num <= 100 * sc.den
        /\ AlignmentPct(correct_count, <<>>).num = 0

\* A category with one matching member out of two has been scored 50.
C5_Witness ==
    /\ pc = "done"
    /\ \E k \in 1..Len(category_health) :
          /\ category_health[k].score.den = 2
          /\ category_health[k].score.num = 100

\* C8: the mismatch list holds, in visiting order, one record for each
\* visited item that does not match its own category and matches another
\* one, suggesting the first such category in rule-table order; an item
\* matching no other category adds no record and no count.
C8_FirstOtherCategory ==
    AuditEntered =>
        LET F == SelectSeq(Visited, Flagged)
        IN  /\ mismatches =
                  [k \in 1..Len(F) |->
                      [item |-> F[k].item, current |-> F[k].current,
                       suggested |-> FirstOther(F[k])]]
            /\ ci <= Len(categories) =>
                  correct_count = OwnCount(categories[ci], ii - 1)

\* An item matching three other categories and an item matching none have
\* both been visited in a category that matches neither.
C8_Witness ==
    /\ pc = "done"
    /\ \E k \in 1..Len(categories) :
          /\ categories[k].cat = "Beverages"
          /\ categories[k].items = <<"Plain Curd", "Olive Oil">>
          /\ category_health[k].score.num = 0
    /\ Len(mismatches) = 1

\* C9: a category the rule table does not know does not make the lookup
\* fail; none of its members is counted as matched; each member gets a
\* record exactly when some rule-table category matches it, the first in
\* table order; its score is 0.
C9_UnknownCategory ==
    /\ (file_exists /\ \A k \in 1..Len(csv_rows) : ~ LacksField(csv_rows[k]))
          => pc # "raised"
    /\ AuditEntered =>
          \A k \in 1..Len(categories) :
              categories[k].cat \notin RuleCats =>
                  /\ k = ci => correct_count = 0
                  /\ k <= Len(category_health)
                        => category_health[k].score.num = 0
                  /\ \A j \in 1..Len(categories[k].items) :
                        (k < ci \/ (k = ci /\ j < ii)) =>
                            LET name == categories[k].items[j]
                                hits == { h \in 1..Len(RuleOrder) :
                                            KeywordIn[name][h] }
                                recs == { m \in Range(mismatches) :
                                            /\ m.item = name
                                            /\ m.current = categories[k].cat }
                            IN  /\ (recs # {}) <=> (hits # {})
                                /\ \A m \in recs :
                                      /\ m.suggested \in { RuleOrder[h] : h \in hits }
                                      /\ \A h \in hits :
                                            RuleOrder[h] = m.suggested
                                            \/ \E g \in hits :
                                                g < h /\ RuleOrder[g] = m.suggested

\* The unknown category Health & Wellness held an item with keyword hits
\* and an item without, and was scored.
C9_Witness ==
    /\ pc = "done"
    /\ \E k \in 1..Len(categories) :
          /\ categories[k].cat = "Health & Wellness"
          /\ categories[k].items = <<"GREEN TEA", "Plain Curd">>
          /\ category_health[k].score.num = 0
    /\ \E m \in Range(mismatches) :
          m.current = "Health & Wellness" /\ m.suggested = "Beverages"

\* C7: a second call on the same rows, in the same order, ends the same
\* way, prints the same scores and report, and leaves the same score
\* mapping and the same ordered mismatch list.
C7_Deterministic ==
    (run = 2 /\ pc \in {"done", "raised"}) =>
        /\ first_result[1].pc = pc
        /\ first_result[1].error = error
        /\ first_result[1].stdout = stdout
        /\ pc = "done" =>
              /\ first_result[1].category_health = category_health
              /\ first_result[1].unique_mismatches = unique_mismatches

\* A second call has reported two categories and a mismatch.
C7_Witness ==
    /\ run = 2
    /\ pc = "done"
    /\ Len(category_health) >= 2
    /\ unique_mismatches # <<>>

-----------------------------------------------------------------------------
(* remediate_database: what the property speaks of *)

\* The product name is a key of the mapping read from the JSON list.
IsMapped(name) == \E k \in 1..Len(json_products) : json_products[k].name = name

\* The category the mapping gives the name: that of its last entry.
MappedCat(name) ==
    json_products[CHOOSE k \in 1..Len(json_products) :
                    /\ json_products[k].name = name
                    /\ \A l \in (k + 1)..Len(json_products) :
                          json_products[l].name # name].category

\* The fetched row's name is mapped to a category other than its own.
Differs(row) == IsMapped(row.name) /\ MappedCat(row.name) # row.current_cat

\* The run connected, ran every statement and committed without an error.
Succeeded(outcome) == outcome.db_error = "none" /\ outcome.commits = 1

\* C10: an UPDATE is issued for a fetched demo-store row exactly when its
\* name is mapped to a category other than its current one; commit is
\* called only after every UPDATE returned; when a statement raises, commit
\* is not called and the committed table is unchanged; after a successful
\* run every demo-store row with a mapped name carries the mapped category
\* and other stores' rows are untouched; a second run right after a
\* successful one issues no UPDATE.
C10_Remediate ==
    /\ dpc \in {"loop", "returned"} =>
          LET upto == IF db_error = "update" THEN ri ELSE ri - 1
              due == SelectSeq(SubSeq(rows, 1, upto), Differs)
          IN  /\ Range(rows) \subseteq
                    { [sku_id |-> r.store_item_id,
                       name |-> r.normalized_product_name,
                       current_cat |-> r.master_category_name] :
                      r \in { q \in registry_at_start : q.store_id = "demo-store" } }
              /\ issued = [k \in 1..Len(due) |->
                              [new_cat |-> MappedCat(due[k].name),
                               sku_id |-> due[k].sku_id]]
              /\ updates = IF db_error = "update" THEN Len(issued) - 1
                           ELSE Len(issued)
    /\ commits >= 1 =>
          /\ commits = 1
          /\ dpc = "returned"
          /\ ri = Len(rows) + 1
          /\ updates = Len(issued)
          /\ db_error \in {"none", "commit"}
    /\ db_error \in {"connect", "select", "update"} =>
          /\ commits = 0
          /\ store_sku_registry = registry_at_start
    /\ commits = 0 => store_sku_registry = registry_at_start
    /\ (dpc = "returned" /\ Succeeded([db_error |-> db_error, commits |-> commits])) =>
          /\ \A r \in store_sku_registry :
                (r.store_id = "demo-store" /\ IsMapped(r.normalized_product_name))
                    => r.master_category_name = MappedCat(r.normalized_product_name)
          /\ { r \in store_sku_registry : r.store_id # "demo-store" }
                = { r \in registry_at_start : r.store_id # "demo-store" }
          /\ Cardinality(store_sku_registry) = Cardinality(registry_at_start)
    /\ (drun = 2 /\ Succeeded(first_run[1])) =>
          /\ issued = <<>>
          /\ updates = 0

\* A run that updated two rows and committed was followed by a second run
\* that went through every row and committed too.
C10_Witness ==
    /\ drun = 2
    /\ dpc = "returned"
    /\ Succeeded(first_run[1])
    /\ first_run[1].updates = 2
    /\ Succeeded([db_error |-> db_error, commits |-> commits])
    /\ Len(rows) = 2

====
